---------------------------- MODULE Spec2Model ----------------------------
(***************************************************************************)
(* Model of src/index.js: isAbsoluteUrl(url, options) and the module-level *)
(* validationCache it memoizes into.                                      *)
(*                                                                         *)
(* A JavaScript string is a sequence of UTF-16 code units (all strings of  *)
(* the model are in the Basic Multilingual Plane, so a code unit is a code *)
(* point).  A JavaScript value is a record [t, b, s, n]: t is the typeof   *)
(* tag ("null" for null), b the boolean, s the string, n the number.       *)
(***************************************************************************)
EXTENDS Integers, Sequences, FiniteSets

(***************************************************************************)
(* Bounds of the model.                                                    *)
(***************************************************************************)
\* src/index.js:9 sets CACHE_MAX_SIZE = 1000; the model keeps the name and
\* scales the capacity down so that a full cache and evictions are reached.
CACHE_MAX_SIZE == 3
\* Longest input of the exhaustive input family (all strings over Alphabet).
MaxLen == 4
\* Longest input of the http-shaped input family.
MaxHttpLen == 7

(***************************************************************************)
(* JavaScript values.                                                      *)
(***************************************************************************)
JsString(str) == [t |-> "string", b |-> FALSE, s |-> str, n |-> 0]
JsBoolean(bool) == [t |-> "boolean", b |-> bool, s |-> <<>>, n |-> 0]
JsNumber(num) == [t |-> "number", b |-> FALSE, s |-> <<>>, n |-> num]
JsUndefined == [t |-> "undefined", b |-> FALSE, s |-> <<>>, n |-> 0]
JsNull == [t |-> "null", b |-> FALSE, s |-> <<>>, n |-> 0]
\* An object, with the string its toString() gives ([] for an array, joined)
JsObject(str) == [t |-> "object", b |-> FALSE, s |-> str, n |-> 0]

\* typeof v
TypeOf(v) == IF v.t = "null" THEN "object" ELSE v.t

\* ToBoolean(v), the test `httpOnly && ...` / `httpOnly ? ... : ...` applies
Truthy(v) ==
    CASE v.t = "boolean" -> v.b
      [] v.t = "string" -> Len(v.s) > 0
      [] v.t = "number" -> v.n # 0
      [] v.t = "object" -> TRUE
      [] OTHER -> FALSE

\* One decimal digit of a template literal's number conversion
DigitChar(d) == 48 + d

\* ToString(v), the conversion a template literal `${v}` applies
ToString(v) ==
    CASE v.t = "string" -> v.s
      [] v.t = "boolean" -> IF v.b THEN <<116, 114, 117, 101>>
                                   ELSE <<102, 97, 108, 115, 101>>
      [] v.t = "number" -> <<DigitChar(v.n)>>
      [] v.t = "undefined" -> <<117, 110, 100, 101, 102, 105, 110, 101, 100>>
      [] v.t = "null" -> <<110, 117, 108, 108>>
      [] OTHER -> v.s

\* String.prototype.codePointAt(i): the code point at index i (from 0), and
\* undefined (-1 here, equal to no code point) past the end of the string
codePointAt(str, i) == IF i < Len(str) THEN str[i + 1] ELSE -1

\* String.prototype.slice(0, end)
slice0(str, end) == SubSeq(str, 1, IF Len(str) < end THEN Len(str) ELSE end)

\* The lower-case mapping of one code unit: A-Z, and the Kelvin sign U+212A
\* whose lower case is the ASCII letter k; every other code unit of the
\* model's strings maps to itself (U+017F, the long s, has no lower case).
LowerChar(c) ==
    IF c >= 65 /\ c <= 90 THEN c + 32
    ELSE IF c = 8490 THEN 107
    ELSE c

\* String.prototype.toLowerCase()
toLowerCase(str) == [i \in 1..Len(str) |-> LowerChar(str[i])]

\* Canonicalize of a case-insensitive, non-unicode regular expression: the
\* upper-case mapping, except that a non-ASCII code unit is never mapped to
\* an ASCII one (so U+017F does not match s or S).
Canonicalize(c) == IF c >= 97 /\ c <= 122 THEN c - 32 ELSE c

(***************************************************************************)
(* The two regular expressions.                                            *)
(***************************************************************************)
\* [a-zA-Z]
IsAlpha(c) == (c >= 65 /\ c <= 90) \/ (c >= 97 /\ c <= 122)

\* A plausible slip: the '.' is left out of the character class.
IsSchemeChar_noDot(c) ==
    (c >= 65 /\ c <= 90) \/ (c >= 97 /\ c <= 122) \/ (c >= 48 /\ c <= 57)
        \/ c = 43 \/ c = 45

\* [a-zA-Z\d+\-.]
IsSchemeChar(c) ==
    IsAlpha(c) \/ (c >= 48 /\ c <= 57) \/ c = 43 \/ c = 45 \/ c = 46

\* [a-zA-Z\d+\-.]*?: matched from index i (from 1): the lazy quantifier
\* tries the colon first and takes one more class character when it fails
RECURSIVE MatchSchemeTail(_, _)
MatchSchemeTail(str, i) ==
    IF i > Len(str) THEN FALSE
    ELSE IF str[i] = 58 THEN TRUE
    ELSE IF IsSchemeChar(str[i]) THEN MatchSchemeTail(str, i + 1)
    ELSE FALSE

\* ABSOLUTE_URL_REGEX.test(str), /^[a-zA-Z][a-zA-Z\d+\-.]*?:/
ABSOLUTE_URL_REGEX(str) ==
    /\ Len(str) >= 1
    /\ IsAlpha(str[1])
    /\ MatchSchemeTail(str, 2)

\* HTTP_PROTOCOLS_REGEX.test(str), /^https?:/i
HTTP_PROTOCOLS_REGEX(str) ==
    /\ Len(str) >= 5
    /\ Canonicalize(str[1]) = 72
    /\ Canonicalize(str[2]) = 84
    /\ Canonicalize(str[3]) = 84
    /\ Canonicalize(str[4]) = 80
    /\ \/ Len(str) >= 6 /\ Canonicalize(str[5]) = 83 /\ str[6] = 58
       \/ str[5] = 58

(***************************************************************************)
(* The helper predicates.                                                  *)
(***************************************************************************)
\* A plausible slip: the mixed-case fallback compares the first five
\* characters only, and so accepts any string starting with http in any case.
hasCommonHttpProtocol_anyHttp(url) ==
    toLowerCase(slice0(url, 4)) = <<104, 116, 116, 112>>

hasCommonHttpProtocol(url) ==
    LET char1 == codePointAt(url, 0)
        char2 == codePointAt(url, 1)
        char3 == codePointAt(url, 2)
        char4 == codePointAt(url, 3)
        char5 == codePointAt(url, 4)
        char6 == codePointAt(url, 5)
        firstSix == toLowerCase(slice0(url, 6))
    IN  IF char1 = 104 /\ char2 = 116 /\ char3 = 116 /\ char4 = 112 /\ char5 = 58
          THEN TRUE
        ELSE IF char1 = 72 /\ char2 = 84 /\ char3 = 84 /\ char4 = 80 /\ char5 = 58
          THEN TRUE
        ELSE IF char1 = 104 /\ char2 = 116 /\ char3 = 116 /\ char4 = 112
                /\ char5 = 115 /\ char6 = 58
          THEN TRUE
        ELSE IF char1 = 72 /\ char2 = 84 /\ char3 = 84 /\ char4 = 80
                /\ char5 = 83 /\ char6 = 58
          THEN TRUE
        ELSE \/ firstSix = <<104, 116, 116, 112, 58>>
             \/ firstSix = <<104, 116, 116, 112, 115, 58>>

\* A plausible slip: only lower-case drive letters are recognised.
isWindowsPath_lowerOnly(url) ==
    /\ Len(url) >= 3
    /\ codePointAt(url, 0) >= 97 /\ codePointAt(url, 0) <= 122
    /\ codePointAt(url, 1) = 58
    /\ codePointAt(url, 2) = 92

isWindowsPath(url) ==
    IF Len(url) < 3 THEN FALSE
    ELSE LET firstChar == codePointAt(url, 0)
             secondChar == codePointAt(url, 1)
             thirdChar == codePointAt(url, 2)
         IN  /\ (firstChar >= 65 /\ firstChar <= 90)
                    \/ (firstChar >= 97 /\ firstChar <= 122)
             /\ secondChar = 58
             /\ thirdChar = 92

(***************************************************************************)
(* The Map validationCache: a sequence of entries [key, value] in          *)
(* insertion order, which is the order a JavaScript Map iterates in.       *)
(***************************************************************************)
MapKeys(map) == {map[i].key : i \in 1..Len(map)}

\* Map.prototype.has
MapHas(map, key) == key \in MapKeys(map)

\* Map.prototype.get, of a key the map has
MapGet(map, key) == map[CHOOSE i \in 1..Len(map) : map[i].key = key].value

\* Map.prototype.set: a key the map has keeps its place, a new key goes last
MapSet(map, key, value) ==
    IF MapHas(map, key)
      THEN [i \in 1..Len(map) |->
              IF map[i].key = key THEN [key |-> key, value |-> value] ELSE map[i]]
      ELSE Append(map, [key |-> key, value |-> value])

\* Map.prototype.delete
MapDelete(map, key) == SelectSeq(map, LAMBDA e : e.key # key)

\* A plausible slip: the newest entry is removed instead of the oldest.
evictOldestCacheEntry_newest(cache) ==
    IF Len(cache) = 0 THEN cache ELSE MapDelete(cache, cache[Len(cache)].key)

\* keys().next().value is the first key in insertion order (undefined, and
\* then nothing is deleted, when the map is empty)
evictOldestCacheEntry(cache) ==
    IF Len(cache) = 0 THEN cache ELSE MapDelete(cache, cache[1].key)

\* A plausible slip: > instead of >= lets the cache grow one entry too far.
Store_offByOne(cache, cacheKey, res) ==
    MapSet(IF Len(cache) > CACHE_MAX_SIZE THEN evictOldestCacheEntry(cache) ELSE cache,
           cacheKey, res)

\* if (validationCache.size >= CACHE_MAX_SIZE) evictOldestCacheEntry();
\* validationCache.set(cacheKey, result);
Store(cache, cacheKey, res) ==
    MapSet(IF Len(cache) >= CACHE_MAX_SIZE THEN evictOldestCacheEntry(cache) ELSE cache,
           cacheKey, res)

(***************************************************************************)
(* isAbsoluteUrl.                                                          *)
(***************************************************************************)
\* A plausible slip: the type check is dropped and the argument is coerced.
IsStringArgument_coerced(url) == TRUE

\* typeof url !== 'string' throws
IsStringArgument(url) == TypeOf(url) = "string"

\* const {httpOnly = true} = options: the default applies to undefined only
ResolveHttpOnly(options) ==
    IF options.httpOnly.t = "undefined" THEN JsBoolean(TRUE) ELSE options.httpOnly

\* A plausible slip: the options are left out of the cache key.
CacheKey_urlOnly(url, httpOnly) == ToString(url)

\* `${url}|${httpOnly}`
CacheKey(url, httpOnly) == ToString(url) \o <<124>> \o ToString(httpOnly)

\* A plausible slip: the scheme-restriction test is skipped.
StandardValidation_anyScheme(str, httpOnly) == ABSOLUTE_URL_REGEX(str)

\* ABSOLUTE_URL_REGEX.test(url) ? (httpOnly ? HTTP_PROTOCOLS_REGEX.test(url) : true) : false
StandardValidation(str, httpOnly) ==
    IF ABSOLUTE_URL_REGEX(str)
      THEN (IF Truthy(httpOnly) THEN HTTP_PROTOCOLS_REGEX(str) ELSE TRUE)
      ELSE FALSE

\* httpOnly && url.length >= 5 && hasCommonHttpProtocol(url)
FastPath(str, httpOnly) ==
    Truthy(httpOnly) /\ Len(str) >= 5 /\ hasCommonHttpProtocol(str)

\* The string methods and regular expressions act on url itself, which is a
\* string past the type check (and is coerced where the check is dropped)
\* One call on the cache `cache`: the outcome ("returned" or "threw"), the
\* boolean returned, the path taken and the cache the call leaves.
isAbsoluteUrl(cache, url, options) ==
    LET httpOnly == ResolveHttpOnly(options)
        cacheKey == CacheKey(url, httpOnly)
    IN  IF ~IsStringArgument(url)
          THEN [outcome |-> "threw", result |-> FALSE, path |-> "threw",
                cache |-> cache]
        ELSE IF MapHas(cache, cacheKey)
          THEN [outcome |-> "returned", result |-> MapGet(cache, cacheKey),
                path |-> "hit", cache |-> cache]
        ELSE IF isWindowsPath(ToString(url))
          THEN [outcome |-> "returned", result |-> FALSE, path |-> "windows",
                cache |-> Store(cache, cacheKey, FALSE)]
        ELSE IF FastPath(ToString(url), httpOnly)
          THEN [outcome |-> "returned", result |-> TRUE, path |-> "fast",
                cache |-> Store(cache, cacheKey, TRUE)]
        ELSE LET res == StandardValidation(ToString(url), httpOnly)
             IN  [outcome |-> "returned", result |-> res, path |-> "standard",
                  cache |-> Store(cache, cacheKey, res)]

(***************************************************************************)
(* The state: the cache, the latest call (its arguments and what it did),  *)
(* and history variables that record, for the entries of the cache, what   *)
(* the code itself does not keep.  A history variable is kept up to date   *)
(* by the specifications whose properties read it and left alone by the    *)
(* others; none of them is read by the code's actions.                     *)
(***************************************************************************)
VARIABLES
    validationCache,  \* the module-level Map
    url,              \* first argument of the latest call
    options,          \* second argument of the latest call: [httpOnly |-> value]
    outcome,          \* "none" before any call, then "returned" or "threw"
    result,           \* the boolean the latest call returned
    path,             \* "hit", "windows", "fast", "standard" or "threw"
    storedBy,         \* history: key -> the (url, httpOnly) of the call that stored it
    recency,          \* history: the cache's keys, least recently used first
    firstKey,         \* history: the first key ever stored (until insertCount saturates)
    insertCount       \* history: number of stores so far, saturating at CACHE_MAX_SIZE + 2

vars == <<validationCache, url, options, outcome, result, path,
          storedBy, recency, firstKey, insertCount>>

\* No key: every cache key holds at least the separator
NoKey == <<>>

(***************************************************************************)
(* Inputs.                                                                 *)
(***************************************************************************)
\* 'http:' (fast path under httpOnly), 'ftp:' (a scheme that is not http),
\* 'c:\' (a platform path) and 'ftp:|true' (which holds the key's separator
\* and ends like a key)
CallStrings ==
    {<<104, 116, 116, 112, 58>>, <<102, 116, 112, 58>>, <<99, 58, 92>>,
     <<102, 116, 112, 58, 124, 116, 114, 117, 101>>}

CallUrls == {JsString(str) : str \in CallStrings}

\* Arguments that are not strings: 1, null, undefined, {} (whose string
\* conversion is '[object Object]') and the array ['ftp:'], an object whose
\* string conversion is 'ftp:'
NonStrings ==
    {JsNumber(1), JsNull, JsUndefined,
     JsObject(<<91, 111, 98, 106, 101, 99, 116, 32, 79, 98, 106, 101, 99, 116, 93>>),
     JsObject(<<102, 116, 112, 58>>)}

NoOptions == [httpOnly |-> JsUndefined]

\* options omitted (or httpOnly omitted), {httpOnly: true}, {httpOnly: false}
BoolOptions == {[httpOnly |-> v] : v \in {JsUndefined, JsBoolean(TRUE), JsBoolean(FALSE)}}

\* ... and httpOnly given as a value that is no boolean: 'false', null
AnyOptions ==
    BoolOptions \cup {[httpOnly |-> v] : v \in {JsString(<<102, 97, 108, 115, 101>>), JsNull}}

\* 'ftp:', 'http:' and 'f|'
AnyStrings == {<<102, 116, 112, 58>>, <<104, 116, 116, 112, 58>>, <<102, 124>>}

AnyUrls == {JsString(str) : str \in AnyStrings}

\* Code units of the exhaustive family: A Z z 1 + . : \ /
Alphabet == {65, 90, 122, 49, 43, 46, 58, 92, 47}

\* All strings over Alphabet of at most MaxLen code units
ExhaustiveStrings == UNION {[1..n -> Alphabet] : n \in 0..MaxLen}

\* Code units allowed at index i (from 1) of an http-shaped string: the two
\* cases of the letter of 'https:/' at that index, and near misses
HttpPosition(i) ==
    CASE i = 1 -> {104, 72, 99}
      [] i = 2 -> {116, 84, 58}
      [] i = 3 -> {116, 84}
      [] i = 4 -> {112, 80, 116}
      [] i = 5 -> {115, 83, 58, 383, 47}
      [] i = 6 -> {58, 47, 115}
      [] OTHER -> {47, 58}

\* The strings of n code units whose every index holds an allowed code unit
RECURSIVE HttpShaped(_)
HttpShaped(n) ==
    IF n = 0 THEN {<<>>}
    ELSE {Append(str, c) : str \in HttpShaped(n - 1), c \in HttpPosition(n)}

HttpShapedStrings == UNION {HttpShaped(n) : n \in 0..MaxHttpLen}

\* The inputs the documentation and the benchmark name:
\* 'http://example.com', 'ftp://example.com', '/path/to/file', 'HTTP://x'
\* 'Http://x', 'hTtPs://x', 'mailto:a', 'file:///x'
\* 'c:\temp', 'C:\windows\path', 'c:/windows', 'HtTpS://example.com'
ExampleStrings ==
    {<<104, 116, 116, 112, 58, 47, 47, 101, 120, 97, 109, 112, 108, 101, 46, 99, 111, 109>>,
       <<102, 116, 112, 58, 47, 47, 101, 120, 97, 109, 112, 108, 101, 46, 99, 111, 109>>,
       <<47, 112, 97, 116, 104, 47, 116, 111, 47, 102, 105, 108, 101>>,
       <<72, 84, 84, 80, 58, 47, 47, 120>>,
       <<72, 116, 116, 112, 58, 47, 47, 120>>,
       <<104, 84, 116, 80, 115, 58, 47, 47, 120>>,
       <<109, 97, 105, 108, 116, 111, 58, 97>>,
       <<102, 105, 108, 101, 58, 47, 47, 47, 120>>,
       <<99, 58, 92, 116, 101, 109, 112>>,
       <<67, 58, 92, 119, 105, 110, 100, 111, 119, 115, 92, 112, 97, 116, 104>>,
       <<99, 58, 47, 119, 105, 110, 100, 111, 119, 115>>,
       <<72, 116, 84, 112, 83, 58, 47, 47, 101, 120, 97, 109, 112, 108, 101, 46, 99, 111, 109>>}

ClassifyStrings == ExhaustiveStrings \cup HttpShapedStrings \cup ExampleStrings

(***************************************************************************)
(* Initial states and actions.                                             *)
(***************************************************************************)
\* Module load: const validationCache = new Map()
Init ==
    /\ validationCache = <<>>
    /\ url = JsUndefined
    /\ options = NoOptions
    /\ outcome = "none"
    /\ result = FALSE
    /\ path = "none"
    /\ storedBy = <<>>
    /\ recency = <<>>
    /\ firstKey = NoKey
    /\ insertCount = 0

\* isAbsoluteUrl(u, o)
Call(u, o) ==
    LET r == isAbsoluteUrl(validationCache, u, o)
    IN  /\ validationCache' = r.cache
        /\ url' = u
        /\ options' = o
        /\ outcome' = r.outcome
        /\ result' = r.result
        /\ path' = r.path

\* The call stored an entry: it took one of the three store paths
Stored == path' \in {"windows", "fast", "standard"}

\* History: which call stored each entry the cache holds
TrackStoredBy(u, o) ==
    storedBy' = [k \in MapKeys(validationCache') |->
                    IF Stored /\ k = CacheKey(u, ResolveHttpOnly(o))
                      THEN [url |-> u, httpOnly |-> ResolveHttpOnly(o)]
                      ELSE storedBy[k]]

\* History: the number of stores and the first key stored.  The first key
\* is kept until the store after its eviction, and through that store when
\* it stores the first key again.
TrackFirst(u, o) ==
    /\ insertCount' = IF Stored /\ insertCount < CACHE_MAX_SIZE + 2
                        THEN insertCount + 1 ELSE insertCount
    /\ firstKey' = IF ~Stored THEN firstKey
                   ELSE IF insertCount = 0 THEN CacheKey(u, ResolveHttpOnly(o))
                   ELSE IF insertCount <= CACHE_MAX_SIZE THEN firstKey
                   ELSE IF insertCount = CACHE_MAX_SIZE + 1
                           /\ CacheKey(u, ResolveHttpOnly(o)) = firstKey
                     THEN firstKey
                   ELSE NoKey

\* History: a store and a hit both make the key the most recently used one
TrackRecency(u, o) ==
    recency' = IF Stored \/ path' = "hit"
                 THEN Append(SelectSeq(recency,
                          LAMBDA k : k # CacheKey(u, ResolveHttpOnly(o))
                                        /\ MapHas(validationCache', k)),
                          CacheKey(u, ResolveHttpOnly(o)))
                 ELSE recency

\* A call with a string, its httpOnly option omitted or a boolean
Invoke(u, o) ==
    /\ Call(u, o)
    /\ TrackStoredBy(u, o)
    /\ TrackFirst(u, o)
    /\ UNCHANGED recency

\* A call with an argument that is not a string
InvokeNonString(v, o) ==
    /\ Call(v, o)
    /\ TrackStoredBy(v, o)
    /\ TrackFirst(v, o)
    /\ UNCHANGED recency

Next ==
    \/ \E u \in CallUrls, o \in BoolOptions : Invoke(u, o)
    \/ \E v \in NonStrings : InvokeNonString(v, NoOptions)

Spec == Init /\ [][Next]_vars

\* The same calls, with the order of use recorded
InvokeLru(u, o) ==
    /\ Call(u, o)
    /\ TrackRecency(u, o)
    /\ UNCHANGED <<storedBy, firstKey, insertCount>>

NextLru == \E u \in CallUrls, o \in BoolOptions : InvokeLru(u, o)

SpecLru == Init /\ [][NextLru]_vars

\* Calls whose httpOnly option may be any value
InvokeAny(u, o) ==
    /\ Call(u, o)
    /\ TrackStoredBy(u, o)
    /\ UNCHANGED <<recency, firstKey, insertCount>>

NextAny == \E u \in AnyUrls, o \in AnyOptions : InvokeAny(u, o)

SpecAny == Init /\ [][NextAny]_vars

\* One call on a fresh cache, for every input string and boolean option
InitClassify ==
    /\ validationCache = <<>>
    /\ url \in {JsString(str) : str \in ClassifyStrings}
    /\ options \in BoolOptions
    /\ outcome = "none"
    /\ result = FALSE
    /\ path = "none"
    /\ storedBy = <<>>
    /\ recency = <<>>
    /\ firstKey = NoKey
    /\ insertCount = 0

Classify ==
    /\ outcome = "none"
    /\ Call(url, options)
    /\ UNCHANGED <<storedBy, recency, firstKey, insertCount>>

NextClassify == Classify

SpecClassify == InitClassify /\ [][NextClassify]_vars

(***************************************************************************)
(* Properties.                                                             *)
(***************************************************************************)
\* The classification of (u, o) computed with an empty cache
Fresh(u, o) == isAbsoluteUrl(<<>>, u, o).result

\* The cache key of the latest call
LatestKey == CacheKey(url, ResolveHttpOnly(options))

\* C1 (cache transparency): whatever calls came before, evictions included,
\* a call with a string and a boolean (or omitted) httpOnly returns what the
\* classification rules give on an empty cache, and every entry the cache
\* holds stores the fresh classification of its own key.
C1_CacheTransparency ==
    /\ outcome = "returned" => result = Fresh(url, options)
    /\ \A u \in CallUrls, o \in BoolOptions :
          MapHas(validationCache, CacheKey(u, ResolveHttpOnly(o)))
              => MapGet(validationCache, CacheKey(u, ResolveHttpOnly(o))) = Fresh(u, o)

\* C1 witness: after evictions, 'ftp:' is held under both policies with
\* different values, and the latest call was a hit on the AnyScheme entry.
C1_Witness ==
    /\ insertCount = CACHE_MAX_SIZE + 2
    /\ path = "hit"
    /\ url = JsString(<<102, 116, 112, 58>>)
    /\ options.httpOnly = JsBoolean(FALSE)
    /\ result = TRUE
    /\ MapHas(validationCache, CacheKey(url, JsBoolean(TRUE)))
    /\ ~MapGet(validationCache, CacheKey(url, JsBoolean(TRUE)))

\* C2 (cache bound): the cache never holds more than CACHE_MAX_SIZE entries.
C2_CacheBound == Len(validationCache) <= CACHE_MAX_SIZE

\* C2 witness: the cache is full after evictions, and the latest call stored
\* on the standard path into a cache that also holds an entry stored on the
\* Windows path and one stored on the HTTP fast path.
C2_Witness ==
    /\ Len(validationCache) = CACHE_MAX_SIZE
    /\ insertCount = CACHE_MAX_SIZE + 2
    /\ path = "standard"
    /\ MapHas(validationCache, CacheKey(JsString(<<99, 58, 92>>), JsBoolean(FALSE)))
    /\ MapHas(validationCache, CacheKey(JsString(<<104, 116, 116, 112, 58>>), JsBoolean(TRUE)))

C7_TypeRejection ==
    [][(outcome' # "none" /\ TypeOf(url') # "string")
          => /\ outcome' = "threw"
             /\ validationCache' = validationCache
      ]_vars

\* C7 witness: the call with ['ftp:'] threw although the cache holds the key
\* the stringified argument would give, 'ftp:|true'.
C7_Witness ==
    /\ outcome = "threw"
    /\ url = JsObject(<<102, 116, 112, 58>>)
    /\ MapHas(validationCache, CacheKey(url, ResolveHttpOnly(options)))

(***************************************************************************)
(* The grammar of the claims, stated on its own: sets of code units and    *)
(* prefixes, with no use of the operators that model the code.             *)
(***************************************************************************)
Letters == (65..90) \cup (97..122)

Digits == 48..57

\* ASCII case folding: A-Z to a-z, nothing else
AsciiFold(c) == IF c \in 65..90 THEN c + 32 ELSE c

\* str begins, compared case-insensitively in ASCII, with the lower-case prefix
BeginsWithIgnoringCase(str, prefix) ==
    /\ Len(str) >= Len(prefix)
    /\ \A i \in 1..Len(prefix) : AsciiFold(str[i]) = prefix[i]

\* str begins with 'http:' or 'https:' in any mix of cases
BeginsWithHttp(str) ==
    \/ BeginsWithIgnoringCase(str, <<104, 116, 116, 112, 58>>)
    \/ BeginsWithIgnoringCase(str, <<104, 116, 116, 112, 115, 58>>)

\* str begins with <letter> (letter | digit | '+' | '-' | '.')* ':'
HasSchemePrefix(str) ==
    \E n \in 2..Len(str) :
        /\ str[1] \in Letters
        /\ \A i \in 2..(n - 1) : str[i] \in Letters \cup Digits \cup {43, 45, 46}
        /\ str[n] = 58

\* The first three characters of str are a letter, ':' and a backslash
HasDrivePrefix(str) ==
    /\ Len(str) >= 3
    /\ str[1] \in Letters
    /\ str[2] = 58
    /\ str[3] = 92

\* The latest call returned under the HttpOnly policy
ReturnedHttpOnly == outcome = "returned" /\ Truthy(ResolveHttpOnly(options))

\* The latest call returned under the AnyScheme policy
ReturnedAnyScheme == outcome = "returned" /\ ~Truthy(ResolveHttpOnly(options))

\* C4 (HTTP-only restriction): with httpOnly true or omitted, the call
\* returns true exactly when the string begins with 'http:' or 'https:' in
\* any mix of ASCII cases.
C4_HttpOnlyRestriction ==
    ReturnedHttpOnly => (result <=> BeginsWithHttp(url.s))

\* C4 witness: 'ftp://example.com', which has a valid scheme, was refused
\* with httpOnly omitted.
C4_Witness ==
    /\ ReturnedHttpOnly
    /\ options = NoOptions
    /\ url.s = <<102, 116, 112, 58, 47, 47, 101, 120, 97, 109, 112, 108, 101, 46, 99, 111, 109>>
    /\ HasSchemePrefix(url.s)
    /\ result = FALSE

\* C5 as stated (scheme grammar conformance): with httpOnly false, the call
\* returns true exactly when the string begins with a scheme prefix.
C5_AsStated ==
    ReturnedAnyScheme => (result <=> HasSchemePrefix(url.s))

\* C5 as amended: with httpOnly false, the call returns true exactly when
\* the string begins with a scheme prefix and its first three characters
\* are not a letter, ':' and a backslash.
C5_SchemeGrammarExceptDrive ==
    ReturnedAnyScheme
        => (result <=> (HasSchemePrefix(url.s) /\ ~HasDrivePrefix(url.s)))

\* C5 witness: 'A+.:' (letter, '+', '.', ':') was accepted with httpOnly false.
C5_Witness ==
    /\ ReturnedAnyScheme
    /\ url.s = <<65, 43, 46, 58>>
    /\ result = TRUE

\* C6 (platform-path precedence): a string whose first three characters are
\* a letter, ':' and a backslash is refused under both policies, on the
\* Windows path of the code (before the fast path and the scheme test), and
\* no other string, in particular none shorter than three characters, takes
\* that path.
C6_PlatformPathPrecedence ==
    outcome = "returned"
        => /\ HasDrivePrefix(url.s) => (result = FALSE /\ path = "windows")
           /\ path = "windows" => HasDrivePrefix(url.s)
           /\ Len(url.s) < 3 => path # "windows"

\* C6 witness: 'Z:\:' was refused on the Windows path with httpOnly false,
\* though it begins with the one-letter scheme prefix 'Z:'.
C6_Witness ==
    /\ ReturnedAnyScheme
    /\ url.s = <<90, 58, 92, 58>>
    /\ HasSchemePrefix(url.s)
    /\ path = "windows"
    /\ result = FALSE

\* C10 (fast-path equivalence): under the HttpOnly policy the result of the
\* call, which consults the shortcut first, is the result of the full test
\* alone; the shortcut accepts no string the full test refuses.
C10_FastPathEquivalence ==
    /\ ReturnedHttpOnly
          => result = StandardValidation(url.s, ResolveHttpOnly(options))
    /\ hasCommonHttpProtocol(url.s)
          => StandardValidation(url.s, JsBoolean(TRUE))

\* C10 witness: for 'Http://x' the shortcut said no (its first six
\* characters are 'Http:/'), and the full test accepted it.
C10_Witness ==
    /\ ReturnedHttpOnly
    /\ url.s = <<72, 116, 116, 112, 58, 47, 47, 120>>
    /\ ~hasCommonHttpProtocol(url.s)
    /\ path = "standard"
    /\ result = TRUE

\* C8 (LRU eviction), as the comment at the store and the benchmark's
\* summary state it: a store into a full cache evicts the least recently
\* used entry, a store and a hit both counting as a use, and keeps every
\* other entry.
C8_LruEviction ==
    [][(Len(validationCache) = CACHE_MAX_SIZE /\ Stored)
          => /\ ~MapHas(validationCache', recency[1])
             /\ \A i \in 2..Len(recency) : MapHas(validationCache', recency[i])
      ]_vars

\* C9 (cache key identity): a call is served from an entry only if the call
\* that stored the entry had the same input string and the same resolved
\* policy mode.
C9_KeyIdentity ==
    path = "hit"
        => /\ storedBy[LatestKey].url = url
           /\ Truthy(storedBy[LatestKey].httpOnly) = Truthy(ResolveHttpOnly(options))

=============================================================================
